---------------------------- MODULE Spec2Model ----------------------------
(***************************************************************************)
(* Mars Orbiter: the game loop of Mars_Orbiter_Game.py (main), with the    *)
(* Satellite and Planet objects it drives.                                 *)
(*                                                                         *)
(* Numbers.  The program keeps positions, velocities and distances as      *)
(* Python floats.  The model keeps them as fixed-point integers in units   *)
(* of 1/Scale (Scale = 1000: x = 400 is 400000, a thrust of 0.05 is 50).   *)
(* math.hypot is computed to 1/100 of a unit and the gravity pull is       *)
(* rounded to the nearest 1/1000; inside the band MinRange..MaxRange the   *)
(* trajectories stay within about one unit of the float program's over     *)
(* 300 ticks.  TLC's integers are 32 bits wide, which is what fixes the    *)
(* band: a run that leaves it is not followed further.  Exact float        *)
(* equality (x == 400.0) has no counterpart in the model.                  *)
(*                                                                         *)
(* Out of the model: pygame surfaces, fonts, sound, the satellite heading  *)
(* (atan2, used for the sprite rotation only) and the planet's rotation    *)
(* angle.  What is drawn is kept as the names of the images and labels.    *)
(***************************************************************************)
EXTENDS Integers, Sequences, FiniteSets

(***************************************************************************)
(* Bounds of the model.                                                    *)
(***************************************************************************)
MaxTick == 321      \* ticks of the game loop that are followed
MaxRange == 320     \* |x - planet.x|, |y - planet.y| <= MaxRange units
MinRange == 10      \* distance >= MinRange units
MaxEvents == 1      \* events returned by one pg.event.get()

(***************************************************************************)
(* Fixed-point representation.                                             *)
(***************************************************************************)
Scale == 1000       \* 1 unit of length or velocity
HypotStep == 10     \* resolution of hypot, in 1/Scale
ForceScale == 100000 \* 1 unit of force (velocity per tick)

(***************************************************************************)
(* Program constants.                                                      *)
(***************************************************************************)
InitSpeed == 3          \* Satellite.__init__: dx = random.choice([-3, 3])
InitFuel == 100         \* Satellite.__init__: fuel
SatMass == 1            \* Satellite.__init__: mass
FuelCost == 2           \* Satellite.thruster: fuel -= 2
ThrustDen == 20         \* Satellite.check_keys: 0.05 = 1/20
PlanetMass == 2000      \* Planet.__init__: mass
PlanetX == 400          \* Planet.__init__: x
PlanetY == 320          \* Planet.__init__: y
G == 1                  \* Planet.gravity: G = 1.0
EccInterval == 5        \* main: eccentricty_calc_interval
Fps == 30               \* main: fps
DriftDx == 2            \* main: sat.dx = 2 when fuel is depleted
AtmosphereTop == 68     \* main: sat.distance <= 68
MapLow == 69            \* main: 69 <= sat.distance
MapHigh == 120          \* main: sat.distance <= 120
EccLimitDen == 20       \* main: eccentricity < 0.05 = 1/20

Thrust == Scale \div ThrustDen

Keys == {"right", "left", "up", "down"}

\* pygame events as main's event loop tells them apart
EventKinds == {"QUIT", "KEYDOWN_ESCAPE", "KEYDOWN_SPACE", "KEYDOWN_m",
               "KEYDOWN_other", "KEYUP"}

(***************************************************************************)
(* The player.  The arrow keys held in each tick (pg.key.get_pressed) come *)
(* from a flight plan: a set of burns, each holding a set of keys from one *)
(* tick to another.  The plan is chosen when the game starts.              *)
(***************************************************************************)
Burn(from, to, keys) == [from |-> from, to |-> to, keys |-> keys]

Plans ==
    [ coast       |-> {},
      circularise |-> {Burn(1, 11, {"right"}), Burn(76, 81, {"right"})},
      leave_orbit |-> {Burn(1, 11, {"right"}), Burn(76, 81, {"right"}),
                       Burn(301, 320, {"left"})},
      hold_right  |-> {Burn(1, MaxTick, {"right"})},
      atmo_up     |-> {Burn(100, MaxTick, {"up"})},
      burn_out    |-> {Burn(1, 50, {"down"})},
      overburn    |-> {Burn(1, 52, {"left"})},
      dive        |-> {Burn(1, 45, {"down"})},
      taps        |-> {Burn(1, 3, {"left", "up"}), Burn(10, 12, {"up", "down"}),
                       Burn(20, 22, Keys), Burn(30, 31, {"down"}),
                       Burn(40, 41, {"left", "right"})} ]

\* x and y of random.randrange(315, 425), random.randrange(70, 180)
StartXs == {315, 380, 400}
StartYs == {170, 179}

VARIABLES
    sat_x, sat_y,       \* Satellite.x, .y
    sat_dx, sat_dy,     \* Satellite.dx, .dy
    sat_fuel,           \* Satellite.fuel
    sat_distance,       \* Satellite.distance
    sat_image,          \* Satellite.image: "sat" (image_sat, rotated) or "crash"
    planet_mass,        \* Planet.mass
    planet_image,       \* Planet.image_copy: "mars" or "water"
    dist_list,          \* main: dist_list
    eccentricity,       \* main: eccentricity, the fraction num/den
    tick_count,         \* main: tick_count
    mapping_enabled,    \* main: mapping_enabled
    running,            \* main: running
    fail_label,         \* the red label of this frame: "none", "Fuel depleted", "Atmospheric entry"
    quit_seen,          \* pg.event.get() has returned a pg.QUIT event
    twin,               \* a second run of the game beside this one, or <<>>
    pilot,              \* the flight plan of this run
    pc                  \* main's position: "events", "physics", "checks", "update", "done"

vars == <<sat_x, sat_y, sat_dx, sat_dy, sat_fuel, sat_distance, sat_image,
          planet_mass, planet_image, dist_list, eccentricity, tick_count,
          mapping_enabled, running, fail_label, quit_seen, twin, pilot, pc>>

(***************************************************************************)
(* Arithmetic.                                                             *)
(***************************************************************************)
Abs(a) == IF a < 0 THEN -a ELSE a

\* a / b towards zero, b > 0
Trunc(a, b) == IF a < 0 THEN -((-a) \div b) ELSE a \div b

\* a / b to the nearest integer, b > 0
Round(a, b) == IF a < 0 THEN -((-a + b \div 2) \div b) ELSE (a + b \div 2) \div b

RECURSIVE SqrtIter(_, _, _)
SqrtIter(n, lo, hi) ==
    IF lo >= hi THEN lo
    ELSE LET mid == (lo + hi + 1) \div 2
         IN  IF mid * mid <= n THEN SqrtIter(n, mid, hi)
                               ELSE SqrtIter(n, lo, mid - 1)

\* the integer square root of n, 0 <= n < 2^31
ISqrt(n) == SqrtIter(n, 0, 46340)

\* math.hypot(a, b), to HypotStep
Hypot(a, b) ==
    HypotStep * ISqrt(Trunc(a, HypotStep) * Trunc(a, HypotStep)
                      + Trunc(b, HypotStep) * Trunc(b, HypotStep))

Max(S) == CHOOSE m \in S : \A s \in S : s <= m
Min(S) == CHOOSE m \in S : \A s \in S : m <= s
Range(s) == {s[i] : i \in 1..Len(s)}

\* the band in which the fixed-point arithmetic is defined
InRange(x, y) ==
    /\ Abs(x - PlanetX * Scale) <= MaxRange * Scale
    /\ Abs(y - PlanetY * Scale) <= MaxRange * Scale
    /\ Hypot(x - PlanetX * Scale, y - PlanetY * Scale) >= MinRange * Scale

(***************************************************************************)
(* Satellite.                                                              *)
(***************************************************************************)
\* pg.key.get_pressed() in tick t
HeldKeys(t) ==
    UNION {b.keys : b \in {c \in Plans[pilot] : c.from <= t /\ t <= c.to}}

\* Satellite.thruster(dx, dy) on the velocity and fuel v = [dx, dy, fuel]
thruster(v, dx, dy) ==
    [dx |-> v.dx + dx, dy |-> v.dy + dy, fuel |-> v.fuel - FuelCost]

\* a mutant of check_keys: left is tested before right
check_keysLeftFirst(v, keys) ==
    IF "left" \in keys THEN thruster(v, -Thrust, 0)
    ELSE IF "right" \in keys THEN thruster(v, Thrust, 0)
    ELSE IF "up" \in keys THEN thruster(v, 0, -Thrust)
    ELSE IF "down" \in keys THEN thruster(v, 0, Thrust)
    ELSE v

\* Satellite.check_keys
check_keys(v, keys) ==
    IF "right" \in keys THEN thruster(v, Thrust, 0)
    ELSE IF "left" \in keys THEN thruster(v, -Thrust, 0)
    ELSE IF "up" \in keys THEN thruster(v, 0, -Thrust)
    ELSE IF "down" \in keys THEN thruster(v, 0, Thrust)
    ELSE v

\* Satellite.locate: the distance to the planet
locate(x, y) == Hypot(x - PlanetX * Scale, y - PlanetY * Scale)

\* Satellite.update, last lines: the sprite after rotate() and the crash test
sprite(dx, dy) == IF dx = 0 /\ dy = 0 THEN "crash" ELSE "sat"

(***************************************************************************)
(* Planet.                                                                 *)
(***************************************************************************)
\* a mutant of force: the planet's mass as a literal
forceFixedMass(mass, distance) ==
    (G * SatMass * PlanetMass * (ForceScale * 10))
        \div (((distance \div HypotStep) * (distance \div HypotStep)) \div 1000)

\* Planet.gravity: force = G * m * M / distance^2, in 1/ForceScale
force(mass, distance) ==
    (G * SatMass * mass * (ForceScale * 10))
        \div (((distance \div HypotStep) * (distance \div HypotStep)) \div 1000)

\* Planet.gravity: (dist / distance) * force for one axis, in 1/Scale
pull(mass, dist, distance) ==
    Round(force(mass, distance) * Trunc(dist, HypotStep),
          (distance \div HypotStep) * (ForceScale \div Scale))

\* Planet.gravity: the satellite's velocity [dx, dy] after the pull
gravity(mass, x, y, dx, dy) ==
    LET dist_x == PlanetX * Scale - x
        dist_y == PlanetY * Scale - y
        distance == Hypot(dist_x, dist_y)
    IN  [dx |-> dx + pull(mass, dist_x, distance),
         dy |-> dy + pull(mass, dist_y, distance)]

(***************************************************************************)
(* main.                                                                   *)
(***************************************************************************)
\* calc_eccentricity: (apoapsis - periapsis) / (apoapsis + periapsis)
calc_eccentricity(list) ==
    LET apoapsis == Max(Range(list))
        periapsis == Min(Range(list))
    IN  [num |-> apoapsis - periapsis, den |-> apoapsis + periapsis]

\* a mutant of EccDue: the interval in ticks instead of seconds
EccDueNoFps(t) == t % EccInterval = 0

\* tick_count % (eccentricty_calc_interval * fps) == 0
EccDue(t) == t % (EccInterval * Fps) = 0

\* a mutant of MappingEligible: the altitude band alone
MappingEligibleBandOnly(ecc, distance) ==
    MapLow * Scale <= distance /\ distance <= MapHigh * Scale

\* eccentricity < 0.05 and 69 <= sat.distance <= 120
MappingEligible(ecc, distance) ==
    /\ EccLimitDen * ecc.num < ecc.den
    /\ MapLow * Scale <= distance
    /\ distance <= MapHigh * Scale

\* a mutant of FailConditions: the altitude is tested before the fuel
FailConditionsAltitudeFirst(s, distance) ==
    IF distance <= AtmosphereTop * Scale
    THEN [fuel |-> s.fuel, dx |-> 0, dy |-> 0, label |-> "Atmospheric entry"]
    ELSE IF s.fuel <= 0
    THEN [fuel |-> 0, dx |-> DriftDx * Scale, dy |-> s.dy, label |-> "Fuel depleted"]
    ELSE [fuel |-> s.fuel, dx |-> s.dx, dy |-> s.dy, label |-> "none"]

\* a mutant of FailConditions: fuel < 0 instead of fuel <= 0
FailConditionsFuelBelowZero(s, distance) ==
    IF s.fuel < 0
    THEN [fuel |-> 0, dx |-> DriftDx * Scale, dy |-> s.dy, label |-> "Fuel depleted"]
    ELSE IF distance <= AtmosphereTop * Scale
    THEN [fuel |-> s.fuel, dx |-> 0, dy |-> 0, label |-> "Atmospheric entry"]
    ELSE [fuel |-> s.fuel, dx |-> s.dx, dy |-> s.dy, label |-> "none"]

\* a mutant of FailConditions: atmospheric entry zeroes dx only
FailConditionsKeepDy(s, distance) ==
    IF s.fuel <= 0
    THEN [fuel |-> 0, dx |-> DriftDx * Scale, dy |-> s.dy, label |-> "Fuel depleted"]
    ELSE IF distance <= AtmosphereTop * Scale
    THEN [fuel |-> s.fuel, dx |-> 0, dy |-> s.dy, label |-> "Atmospheric entry"]
    ELSE [fuel |-> s.fuel, dx |-> s.dx, dy |-> s.dy, label |-> "none"]

\* the fuel / altitude fail conditions on s = [fuel, dx, dy], with the label shown
FailConditions(s, distance) ==
    IF s.fuel <= 0
    THEN [fuel |-> 0, dx |-> DriftDx * Scale, dy |-> s.dy, label |-> "Fuel depleted"]
    ELSE IF distance <= AtmosphereTop * Scale
    THEN [fuel |-> s.fuel, dx |-> 0, dy |-> 0, label |-> "Atmospheric entry"]
    ELSE [fuel |-> s.fuel, dx |-> s.dx, dy |-> s.dy, label |-> "none"]

\* a mutant of HandleEvent: the escape key ends the game too
HandleEventEscapeQuits(e, event) ==
    IF event = "QUIT" THEN [e EXCEPT !.running = FALSE]
    ELSE IF event = "KEYDOWN_ESCAPE" THEN [e EXCEPT !.running = FALSE]
    ELSE IF event = "KEYDOWN_SPACE" THEN e
    ELSE IF event = "KEYUP" THEN [e EXCEPT !.image = "mars"]
    ELSE IF e.enabled /\ event = "KEYDOWN_m" THEN [e EXCEPT !.image = "water"]
    ELSE e

\* a mutant of HandleEvent: releasing a key clears mapping_enabled as well
HandleEventClearsFlag(e, event) ==
    IF event = "QUIT" THEN [e EXCEPT !.running = FALSE]
    ELSE IF event = "KEYDOWN_ESCAPE" THEN e
    ELSE IF event = "KEYDOWN_SPACE" THEN e
    ELSE IF event = "KEYUP" THEN [e EXCEPT !.image = "mars", !.enabled = FALSE]
    ELSE IF e.enabled /\ event = "KEYDOWN_m" THEN [e EXCEPT !.image = "water"]
    ELSE e

\* one event of the event loop on e = [running, image, enabled]: running,
\* planet.image_copy and mapping_enabled
HandleEvent(e, event) ==
    IF event = "QUIT" THEN [e EXCEPT !.running = FALSE]
    ELSE IF event = "KEYDOWN_ESCAPE" THEN e
    ELSE IF event = "KEYDOWN_SPACE" THEN e
    ELSE IF event = "KEYUP" THEN [e EXCEPT !.image = "mars"]
    ELSE IF e.enabled /\ event = "KEYDOWN_m" THEN [e EXCEPT !.image = "water"]
    ELSE e

RECURSIVE HandleEvents(_, _)
HandleEvents(e, events) ==
    IF events = <<>> THEN e
    ELSE HandleEvents(HandleEvent(e, Head(events)), Tail(events))

\* what one pg.event.get() may return
EventQueues == UNION {[1..n -> EventKinds] : n \in 0..MaxEvents}

(***************************************************************************)
(* The second run.  For the comparison of two runs of the game, twin holds *)
(* the state of a second run t = [x, y, dx, dy, fuel, distance, dist_list, *)
(* eccentricity, mapping_enabled, running, image] that starts in the same  *)
(* state, flies the same plan and takes the same steps of main, with an    *)
(* event queue of its own in every tick.  Without it twin is <<>>.         *)
(***************************************************************************)
\* the second run's part of Events: its queue holds a QUIT exactly when this
\* run's queue does
TwinEvents ==
    IF twin = <<>> THEN twin' = twin
    ELSE \E events \in EventQueues :
            /\ ("QUIT" \in Range(events)) = (quit_seen' /\ ~quit_seen)
            /\ LET e == HandleEvents([running |-> twin.running, image |-> twin.image,
                                      enabled |-> twin.mapping_enabled], events)
               IN  twin' = [twin EXCEPT !.dist_list = Append(twin.dist_list, twin.distance),
                                        !.running = e.running,
                                        !.image = e.image,
                                        !.mapping_enabled = e.enabled]

\* the second run's part of Physics
TwinPhysics(t, tick) ==
    LET v == gravity(planet_mass, t.x, t.y, t.dx, t.dy)
    IN  [t EXCEPT !.distance = locate(t.x, t.y),
                  !.dx = v.dx,
                  !.dy = v.dy,
                  !.eccentricity = IF EccDue(tick) THEN calc_eccentricity(t.dist_list)
                                                   ELSE t.eccentricity,
                  !.dist_list = IF EccDue(tick) THEN <<>> ELSE t.dist_list]

\* the second run's part of Checks
TwinChecks(t) ==
    LET f == FailConditions([fuel |-> t.fuel, dx |-> t.dx, dy |-> t.dy], t.distance)
    IN  [t EXCEPT !.fuel = f.fuel,
                  !.dx = f.dx,
                  !.dy = f.dy,
                  !.mapping_enabled = MappingEligible(t.eccentricity, t.distance)]

\* the second run's part of Update
TwinUpdate(t, keys) ==
    LET v == check_keys([dx |-> t.dx, dy |-> t.dy, fuel |-> t.fuel], keys)
    IN  [t EXCEPT !.dx = v.dx,
                  !.dy = v.dy,
                  !.fuel = v.fuel,
                  !.x = t.x + v.dx,
                  !.y = t.y + v.dy]

\* a mutant of InitWith: the satellite starts with its distance measured
InitWithMeasured(mass) ==
    /\ sat_x \in {x * Scale : x \in StartXs}
    /\ sat_y \in {y * Scale : y \in StartYs}
    /\ sat_dx \in {-InitSpeed * Scale, InitSpeed * Scale}
    /\ sat_dy = 0
    /\ sat_fuel = InitFuel
    /\ sat_distance = locate(sat_x, sat_y)
    /\ sat_image = "sat"
    /\ planet_mass = mass
    /\ planet_image = "mars"
    /\ dist_list = <<>>
    /\ eccentricity = [num |-> 1, den |-> 1]
    /\ tick_count = 0
    /\ mapping_enabled = FALSE
    /\ running = TRUE
    /\ fail_label = "none"
    /\ quit_seen = FALSE
    /\ pilot \in DOMAIN Plans
    /\ pc = "events"

InitWith(mass) ==
    /\ sat_x \in {x * Scale : x \in StartXs}
    /\ sat_y \in {y * Scale : y \in StartYs}
    /\ sat_dx \in {-InitSpeed * Scale, InitSpeed * Scale}
    /\ sat_dy = 0
    /\ sat_fuel = InitFuel
    /\ sat_distance = 0
    /\ sat_image = "sat"
    /\ planet_mass = mass
    /\ planet_image = "mars"
    /\ dist_list = <<>>
    /\ eccentricity = [num |-> 1, den |-> 1]
    /\ tick_count = 0
    /\ mapping_enabled = FALSE
    /\ running = TRUE
    /\ fail_label = "none"
    /\ quit_seen = FALSE
    /\ pilot \in DOMAIN Plans
    /\ pc = "events"

Init == InitWith(PlanetMass) /\ twin = <<>>

\* while running: clock.tick, tick_count += 1, dist_list.append, the event loop
Events ==
    /\ pc = "events"
    /\ running
    /\ tick_count < MaxTick
    /\ tick_count' = tick_count + 1
    /\ dist_list' = Append(dist_list, sat_distance)
    /\ \E events \in EventQueues :
          LET e == HandleEvents([running |-> running, image |-> planet_image,
                                 enabled |-> mapping_enabled], events)
          IN  /\ running' = e.running
              /\ planet_image' = e.image
              /\ mapping_enabled' = e.enabled
              /\ quit_seen' = (quit_seen \/ "QUIT" \in Range(events))
    /\ TwinEvents
    /\ pc' = "physics"
    /\ UNCHANGED <<sat_x, sat_y, sat_dx, sat_dy, sat_fuel, sat_distance, sat_image,
                   planet_mass, eccentricity, fail_label, pilot>>

\* sat.locate(planet), planet.gravity(sat), the eccentricity every 150 ticks
Physics ==
    /\ pc = "physics"
    /\ InRange(sat_x, sat_y)
    /\ sat_distance' = locate(sat_x, sat_y)
    /\ LET v == gravity(planet_mass, sat_x, sat_y, sat_dx, sat_dy)
       IN  /\ sat_dx' = v.dx
           /\ sat_dy' = v.dy
    /\ IF EccDue(tick_count)
       THEN /\ eccentricity' = calc_eccentricity(dist_list)
            /\ dist_list' = <<>>
       ELSE UNCHANGED <<eccentricity, dist_list>>
    /\ twin' = (IF twin = <<>> THEN twin ELSE TwinPhysics(twin, tick_count))
    /\ pc' = "checks"
    /\ UNCHANGED <<sat_x, sat_y, sat_fuel, sat_image, planet_mass, planet_image,
                   tick_count, mapping_enabled, running, fail_label, quit_seen, pilot>>

\* the fail conditions, then the mapping eligibility
Checks ==
    /\ pc = "checks"
    /\ LET f == FailConditions([fuel |-> sat_fuel, dx |-> sat_dx, dy |-> sat_dy],
                               sat_distance)
       IN  /\ sat_fuel' = f.fuel
           /\ sat_dx' = f.dx
           /\ sat_dy' = f.dy
           /\ fail_label' = f.label
    /\ mapping_enabled' = MappingEligible(eccentricity, sat_distance)
    /\ twin' = (IF twin = <<>> THEN twin ELSE TwinChecks(twin))
    /\ pc' = "update"
    /\ UNCHANGED <<sat_x, sat_y, sat_distance, sat_image, planet_mass, planet_image,
                   dist_list, eccentricity, tick_count, running, quit_seen, pilot>>

\* sat_sprite.update(): check_keys, rotate, path, the crash image; then the
\* telemetry is drawn from the satellite's fields as they are now
Update ==
    /\ pc = "update"
    /\ LET v == check_keys([dx |-> sat_dx, dy |-> sat_dy, fuel |-> sat_fuel],
                           HeldKeys(tick_count))
       IN  /\ sat_dx' = v.dx
           /\ sat_dy' = v.dy
           /\ sat_fuel' = v.fuel
           /\ sat_x' = sat_x + v.dx
           /\ sat_y' = sat_y + v.dy
           /\ sat_image' = sprite(v.dx, v.dy)
    /\ twin' = (IF twin = <<>> THEN twin ELSE TwinUpdate(twin, HeldKeys(tick_count)))
    /\ pc' = "events"
    /\ UNCHANGED <<sat_distance, planet_mass, planet_image, dist_list, eccentricity,
                   tick_count, mapping_enabled, running, fail_label, quit_seen, pilot>>

\* while running: the loop ends
Exit ==
    /\ pc = "events"
    /\ ~running
    /\ IF twin = <<>> THEN TRUE ELSE ~twin.running
    /\ pc' = "done"
    /\ UNCHANGED <<sat_x, sat_y, sat_dx, sat_dy, sat_fuel, sat_distance, sat_image,
                   planet_mass, planet_image, dist_list, eccentricity, tick_count,
                   mapping_enabled, running, fail_label, quit_seen, twin, pilot>>

Next == Events \/ Physics \/ Checks \/ Update \/ Exit

Spec == Init /\ [][Next]_vars

\* two runs of the game side by side, from the start x = 400, y = 179, dx = 3
TwinPilots == {"coast", "circularise", "leave_orbit", "taps"}

InitTwin ==
    /\ InitWith(PlanetMass)
    /\ sat_x = 400 * Scale
    /\ sat_y = 179 * Scale
    /\ sat_dx = InitSpeed * Scale
    /\ pilot \in TwinPilots
    /\ twin = [x |-> sat_x, y |-> sat_y, dx |-> sat_dx, dy |-> sat_dy,
               fuel |-> sat_fuel, distance |-> sat_distance,
               dist_list |-> dist_list, eccentricity |-> eccentricity,
               mapping_enabled |-> mapping_enabled, running |-> running,
               image |-> planet_image]

SpecTwin == InitTwin /\ [][Next]_vars

\* the game with gravity disabled: Planet.mass = 0
InitZeroG == InitWith(0) /\ twin = <<>>
SpecZeroG == InitZeroG /\ [][Next]_vars

(***************************************************************************)
(* Claims.                                                                 *)
(***************************************************************************)

\* C1: in every reachable state the satellite's fuel is an integer with
\* 0 <= fuel <= 100, also at the end of a tick, when it is displayed.
FuelWithinTank == sat_fuel \in 0..InitFuel

\* C2: when fuel <= 0 at the fail-condition check, only the fuel-depleted
\* branch takes effect, whatever the distance: fuel becomes 0, dx becomes the
\* drift value 2, dy is left as it is and the label is "Fuel depleted".
FuelCheckFirst ==
    [][pc = "checks" /\ sat_fuel <= 0
         => /\ sat_fuel' = 0
            /\ sat_dx' = 2 * Scale
            /\ sat_dy' = sat_dy
            /\ fail_label' = "Fuel depleted"]_vars

\* C2, its case: the fuel-depleted branch has run below the top of the
\* atmosphere, and dy was not zeroed.
FuelDepletedInAtmosphere ==
    /\ pc = "update"
    /\ fail_label = "Fuel depleted"
    /\ sat_distance <= 68 * Scale
    /\ sat_dy # 0

\* C3: once fuel is exhausted (fuel = 0), a held arrow key is a no-op: the
\* satellite's update changes neither dx nor dy and consumes no fuel.
NoThrustWithoutFuel ==
    [][pc = "update" /\ sat_fuel = 0
         => sat_dx' = sat_dx /\ sat_dy' = sat_dy /\ sat_fuel' = sat_fuel]_vars

\* C4: in a tick in which the atmospheric-entry branch ran, the velocity is
\* (0,0) when the satellite is integrated and its sprite chosen, for every key
\* input: the position does not change and the crash image is shown.
AtmosphericEntryStops ==
    [][pc = "update" /\ fail_label = "Atmospheric entry"
         => /\ sat_dx' = 0 /\ sat_dy' = 0
            /\ sat_x' = sat_x /\ sat_y' = sat_y
            /\ sat_image' = "crash"]_vars

\* C5: after the mapping-eligibility evaluation of a tick (and until the next
\* tick's distance is computed), mapping_enabled is true if and only if
\* eccentricity < 0.05 and 69 <= distance <= 120, whatever the fuel and the
\* fail branch.
MappingEnabledIff ==
    pc # "checks"
        => (mapping_enabled <=> /\ 20 * eccentricity.num < eccentricity.den
                                /\ 69 * Scale <= sat_distance
                                /\ sat_distance <= 120 * Scale)

\* C5, its case: the orbit is eligible and mapping is enabled.
MappingIsEnabled ==
    /\ pc = "update"
    /\ mapping_enabled
    /\ 20 * eccentricity.num < eccentricity.den
    /\ sat_distance \in (69 * Scale)..(120 * Scale)

\* C6: fuel never increases from one state to the next.
FuelNonIncreasing == [][sat_fuel' <= sat_fuel]_vars

\* C7 as stated: one full tick with no arrow key held and gravity disabled
\* (planet mass 0) leaves the velocity unchanged and moves the position by the
\* velocity the satellite had before the tick.  Step by step: the physics and
\* the checks of such a tick change neither velocity nor position, and the
\* update adds the unchanged velocity to the position.
ZeroGravityTick ==
    [][planet_mass = 0 /\ pc \in {"physics", "checks", "update"}
            /\ HeldKeys(tick_count) = {}
         => /\ sat_dx' = sat_dx /\ sat_dy' = sat_dy
            /\ sat_x' = (IF pc = "update" THEN sat_x + sat_dx ELSE sat_x)
            /\ sat_y' = (IF pc = "update" THEN sat_y + sat_dy ELSE sat_y)]_vars

\* C7 as amended: the same, for a tick in which neither fail condition holds
\* at the check (fuel > 0 and distance > 68).
ZeroGravityTickNoFail ==
    [][planet_mass = 0 /\ pc \in {"physics", "checks", "update"}
            /\ HeldKeys(tick_count) = {}
            /\ (pc = "checks" => sat_fuel > 0 /\ sat_distance > 68 * Scale)
         => /\ sat_dx' = sat_dx /\ sat_dy' = sat_dy
            /\ sat_x' = (IF pc = "update" THEN sat_x + sat_dx ELSE sat_x)
            /\ sat_y' = (IF pc = "update" THEN sat_y + sat_dy ELSE sat_y)]_vars

\* C7, its case: a tick without gravity, without a held key and without a
\* fail branch has run to its end with the satellite moving.
ZeroGravityTickDone ==
    /\ planet_mass = 0
    /\ pc = "events"
    /\ tick_count >= 1
    /\ HeldKeys(tick_count) = {}
    /\ fail_label = "none"
    /\ sat_dx # 0

\* C8: the eccentricity changes only in ticks whose counter is a multiple of
\* 150: there it becomes (max - min) / (max + min) over the 150 samples of the
\* window, and the window is emptied; in every other tick the estimate is kept
\* and the window, one sample longer than before the tick, holds fewer than
\* 150 samples.
EccentricityEvery150 ==
    [][/\ pc = "events" /\ pc' = "physics"
            => /\ eccentricity' = eccentricity
               /\ Len(dist_list') = Len(dist_list) + 1
               /\ Len(dist_list') <= 150
       /\ pc = "physics" /\ tick_count % 150 = 0
            => /\ Len(dist_list) = 150
               /\ dist_list' = <<>>
               /\ \E i, j \in 1..Len(dist_list) :
                     /\ \A k \in 1..Len(dist_list) :
                           dist_list[j] <= dist_list[k] /\ dist_list[k] <= dist_list[i]
                     /\ eccentricity'.num = dist_list[i] - dist_list[j]
                     /\ eccentricity'.den = dist_list[i] + dist_list[j]
                     /\ eccentricity'.den > 0
       /\ pc = "physics" /\ tick_count % 150 # 0
            => /\ eccentricity' = eccentricity
               /\ dist_list' = dist_list
               /\ Len(dist_list) < 150
       /\ pc \in {"checks", "update"}
            => eccentricity' = eccentricity /\ dist_list' = dist_list]_vars

\* C8, its case: the second window has been consumed, giving an estimate
\* below 1.
SecondEccentricity ==
    /\ tick_count = 300
    /\ pc = "checks"
    /\ dist_list = <<>>
    /\ eccentricity.num < eccentricity.den

\* C9: the sample appended to the window in a tick is the distance computed by
\* that tick's locate: once the tick's physics has run, the last sample of the
\* window is the satellite's current distance.
SampleIsThisTicksDistance ==
    pc = "checks" /\ dist_list # <<>>
        => dist_list[Len(dist_list)] = sat_distance

\* C11: in every reachable state, if the planet is shown in the moisture
\* image then mapping_enabled is true: the moisture image does not stay on
\* after the orbit has stopped being eligible.
MoistureOnlyWhenEligible == planet_image = "water" => mapping_enabled

EventsDoNotChangeFlight ==
    twin # <<>> =>
        /\ twin.x = sat_x /\ twin.y = sat_y
        /\ twin.dx = sat_dx /\ twin.dy = sat_dy
        /\ twin.fuel = sat_fuel
        /\ twin.distance = sat_distance
        /\ twin.eccentricity = eccentricity
        /\ twin.mapping_enabled = mapping_enabled

\* C13 witness: the two runs have had different events: one shows the
\* moisture image and the other does not.
TwinShowsOtherImage ==
    /\ twin # <<>>
    /\ pc = "update"
    /\ planet_image = "water"
    /\ twin.image = "mars"
    /\ mapping_enabled

\* C14: once the fuel-depleted branch has run, it runs in every later tick:
\* fuel <= 0 at every later fail check, dx is forced to 2 in every later tick
\* and the atmospheric-entry branch never runs again.
FuelDepletionAbsorbing ==
    [][ fail_label = "Fuel depleted" =>
            /\ fail_label' = "Fuel depleted"
            /\ sat_fuel <= 0 /\ sat_fuel' <= 0
            /\ pc = "checks" => sat_dx' = 2 * Scale /\ sat_fuel' = 0
      ]_vars

\* C14 witness: the fuel-depleted branch has run again after a thrust without
\* fuel, inside the atmosphere.
DepletedAgainInAtmosphere ==
    /\ pc = "update"
    /\ fail_label = "Fuel depleted"
    /\ tick_count > 52
    /\ HeldKeys(tick_count - 1) # {}
    /\ sat_distance <= 68 * Scale
    /\ sat_dx = 2 * Scale

\* C15: if the atmospheric-entry branch has run and no directional key is
\* held in that tick or any later one, the position never changes again, the
\* branch runs in every later tick (fuel > 0, distance <= 68) and the
\* velocity is (0, 0) at every integration, although gravity is added to it
\* in every tick.  (fail_label is the branch of the last fail check: of the
\* tick before while pc is "physics" or "checks", of this tick otherwise.)
AtmosphericEntryAbsorbing ==
    [][ (/\ fail_label = "Atmospheric entry"
         /\ \A u \in (IF pc \in {"physics", "checks"} THEN tick_count - 1
                                                     ELSE tick_count)..MaxTick :
                HeldKeys(u) = {}) =>
            /\ sat_x' = sat_x /\ sat_y' = sat_y
            /\ fail_label' = "Atmospheric entry"
            /\ pc = "checks" => sat_fuel > 0 /\ sat_distance <= 68 * Scale
            /\ pc = "update" => sat_dx' = 0 /\ sat_dy' = 0
      ]_vars

\* C15 witness: a tick after one that ended at rest in the atmosphere:
\* gravity has been added to the velocity and the fail checks are next.
AtRestInAtmosphereWithGravity ==
    /\ pc = "checks"
    /\ fail_label = "Atmospheric entry"
    /\ sat_image = "crash"
    /\ \A u \in (tick_count - 1)..MaxTick : HeldKeys(u) = {}
    /\ sat_dx # 0 \/ sat_dy # 0

FirstEccentricityIsOne ==
    /\ (tick_count < 150 /\ dist_list # <<>>) => dist_list[1] = 0
    /\ (\/ tick_count = 150 /\ pc # "physics"
        \/ tick_count > 150 /\ tick_count < 300
        \/ tick_count = 300 /\ pc = "physics")
       => eccentricity.num = eccentricity.den /\ eccentricity.den > 0
    /\ (\/ tick_count < 300
        \/ tick_count = 300 /\ pc \in {"physics", "checks"})
       => ~mapping_enabled

\* C17 witness: the eccentricity of tick 150 has been computed from a list
\* that starts with 0, and the satellite is inside the mapping band.
FirstEccentricityInBand ==
    /\ tick_count = 150
    /\ pc = "checks"
    /\ eccentricity.num = eccentricity.den
    /\ eccentricity.num > 0
    /\ 69 * Scale <= sat_distance
    /\ sat_distance <= 120 * Scale

=============================================================================
